---- MODULE Spec2Model ----
(***************************************************************************)
(* PDFview: the PDF curve class of src/pdf.py, its files and the main      *)
(* window of src/gui.py as a state machine.                                *)
(*                                                                         *)
(* Numbers.  numpy's float64 values are modelled as exact rationals        *)
(* <<n, d>> (d > 0, lowest terms) extended with the three IEEE specials    *)
(* numpy produces instead of raising: <<0,0>> is nan, <<1,0>> is +inf and  *)
(* <<-1,0>> is -inf.  Rounding error is not modelled.  The r axis only     *)
(* ever holds values that were passed in, so r holds integers.  One model  *)
(* unit is the absolute tolerance of np.allclose (Atol): two values one    *)
(* unit apart are "close", two values further apart are not.               *)
(***************************************************************************)
EXTENDS Integers, Sequences, FiniteSets, TLC

VARIABLES pdfs, old, ret, steps, files, writer, main_window

vars == <<pdfs, old, ret, steps, files, writer, main_window>>

(***************************************************************************)
(* Bounds of the model.                                                    *)
(***************************************************************************)
\* longest r or g list handed to the constructor or the json setter
MaxLen == 2

\* number of API calls in one run, after the first object was constructed
MaxSteps == 2

\* most samples of a curve that points are inserted into or extrema are sought in
MaxSamples == 4

\* most lines of a text file that is there before the script runs
MaxLines == 2

\* number of events the main window handles in one run
MaxEvents == 3

\* values of the r axis and of arguments compared with it (x, start, end)
RVals == {10, 11, 20}

\* raw g values handed in
GVals == {0, 2}

\* arguments of scale()
Factors == {-1, 0, 2}

\* the curve objects a run works with
Slots == {"a", "b"}

(***************************************************************************)
(* Program constants.                                                      *)
(***************************************************************************)
\* np.allclose(..., rtol=0) keeps numpy's default absolute tolerance
Atol == 1

(***************************************************************************)
(* Rational arithmetic with numpy's nan / inf.                             *)
(***************************************************************************)
Abs(i) == IF i < 0 THEN -i ELSE i

Sign(i) == IF i < 0 THEN -1 ELSE IF i > 0 THEN 1 ELSE 0

RECURSIVE Gcd(_, _)
Gcd(i, j) == IF j = 0 THEN i ELSE Gcd(j, i % j)

Norm(n, d) ==
    IF d = 0 THEN <<Sign(n), 0>>
    ELSE LET k == Gcd(Abs(n), Abs(d))
             s == IF d < 0 THEN -1 ELSE 1
         IN  <<(s * n) \div k, (s * d) \div k>>

Rat(i) == <<i, 1>>

Zero == <<0, 1>>

One == <<1, 1>>

NaN == <<0, 0>>

IsNaN(a) == a = NaN

IsFinite(a) == a[2] # 0

RAdd(a, b) ==
    IF a[2] = 0 /\ b[2] = 0
    THEN (IF a = b THEN a ELSE NaN)
    ELSE Norm(a[1] * b[2] + b[1] * a[2], a[2] * b[2])

RNeg(a) == <<-a[1], a[2]>>

RSub(a, b) == RAdd(a, RNeg(b))

RMul(a, b) == Norm(a[1] * b[1], a[2] * b[2])

Recip(a) == IF a[1] < 0 THEN <<-a[2], -a[1]>> ELSE <<a[2], a[1]>>

\* numpy's true division: x/0 is +-inf and 0/0 is nan (a warning, no exception)
RDiv(a, b) == RMul(a, Recip(b))

RAbs(a) == <<Abs(a[1]), a[2]>>

RLt(a, b) == a[1] * b[2] < b[1] * a[2]

RLe(a, b) == ~IsNaN(a) /\ ~IsNaN(b) /\ a[1] * b[2] <= b[1] * a[2]

\* np.isclose with rtol=0: |a - b| <= atol; equal infinities are close, nan never
RClose(a, b) ==
    IF IsFinite(a) /\ IsFinite(b)
    THEN RLe(RAbs(RSub(a, b)), Rat(Atol))
    ELSE ~IsNaN(a) /\ a = b

(***************************************************************************)
(* Sequences.                                                              *)
(***************************************************************************)
SeqsUpTo(S, n) == UNION {[1..k -> S] : k \in 0..n}

Min2(i, j) == IF i < j THEN i ELSE j

Max2(i, j) == IF i > j THEN i ELSE j

\* Python's s[lo:hi] for 0-based lo, hi >= 0 (bounds are clamped to the length)
Slice(s, lo, hi) ==
    LET h == Min2(hi, Len(s))
    IN  IF lo >= h THEN <<>> ELSE [k \in 1..(h - lo) |-> s[lo + k]]

\* np.insert(s, index, v) for a 0-based index in 0..len(s)
NpInsert(s, index, v) ==
    [k \in 1..(Len(s) + 1) |->
        IF k <= index THEN s[k] ELSE IF k = index + 1 THEN v ELSE s[k - 1]]

RECURSIVE RSum(_)
RSum(s) == IF s = <<>> THEN Zero ELSE RAdd(s[1], RSum(Tail(s)))

ScaleSeq(s, f) == [k \in 1..Len(s) |-> RMul(s[k], f)]

ToRats(s) == [k \in 1..Len(s) |-> Rat(s[k])]

(***************************************************************************)
(* The curve entity (class PDF).                                           *)
(***************************************************************************)
\* a slot that holds no PDF object (yet).  sf_numpy tells the type of
\* scaling_factor: FALSE for a Python number (the 1 of __init__, an argument of
\* scale, a number read by json.loads), TRUE for a numpy float64 (res.x)
NoPDF == [live |-> FALSE, r |-> <<>>, g |-> <<>>, name |-> "", scaling_factor |-> One,
          sf_numpy |-> FALSE]

\* the value of an absent optional argument or return value
None == <<>>

Some(v) == <<v>>

\* Outcome of a call.  err: the Python exception type, "" when the call returned;
\* self: the object the method was called on, as the call left it; pdf: the PDF
\* returned; num: the number returned; fit: <<>>, or <<f>> when the call ran the
\* minimizer, f.start_i and f.end_i being the slice self.g[start_i:end_i] it was
\* run on and f.res what it reported; list: the list of (r, g) pairs returned;
\* bool: the truth value returned; used: the 0-based indices of the samples a
\* polynomial was laid through, in the order of x_values.
Out(e, slf, p, v, f) ==
    [err |-> e, self |-> slf, pdf |-> p, num |-> v, fit |-> f,
     list |-> <<>>, bool |-> FALSE, used |-> <<>>]

Raise(e, slf) == Out(e, slf, NoPDF, Zero, <<>>)

ReturnPDF(p, slf) == Out("", slf, p, Zero, <<>>)

ReturnNum(v, slf) == Out("", slf, NoPDF, v, <<>>)

ReturnNone(slf) == Out("", slf, NoPDF, Zero, <<>>)

ReturnList(l, slf) == [ReturnNone(slf) EXCEPT !.list = l]

ReturnBool(b, slf) == [ReturnNone(slf) EXCEPT !.bool = b]

\* np.all(r[:-1] <= r[1:])
IsSorted(r) == \A k \in 1..(Len(r) - 1) : r[k] <= r[k + 1]

\* np.argsort(r), 1-based; numpy sorts arrays this short by insertion, which is stable
ArgSort(r) ==
    LET rank(i) == Cardinality({j \in 1..Len(r) :
                        r[j] < r[i] \/ (r[j] = r[i] /\ j < i)}) + 1
    IN  [k \in 1..Len(r) |-> CHOOSE i \in 1..Len(r) : rank(i) = k]

\* PDF.__init__: the outcome of PDF(r, g, name)
PDFInit(r, g, name) ==
    LET unsorted == ~IsSorted(r)
        sort_indices == ArgSort(r)
        r2 == IF unsorted THEN [k \in 1..Len(r) |-> r[sort_indices[k]]] ELSE r
        g2 == IF unsorted THEN [k \in 1..Len(r) |-> g[sort_indices[k]]] ELSE g
    IN  IF unsorted /\ Len(g) < Len(r)
        THEN Raise("IndexError", NoPDF)  \* g[sort_indices]: an index of r is out of bounds for g
        ELSE IF Len(r2) = Len(g2)
             THEN LET new == [live |-> TRUE, r |-> r2, g |-> g2, name |-> name,
                              scaling_factor |-> One, sf_numpy |-> FALSE]
                  IN  ReturnPDF(new, new)
             ELSE Raise("ValueError", NoPDF)

\* PDF.__len__
PDFLen(p) == Len(p.r)

\* np.allclose(u, v, rtol=0) on two integer arrays of equal length
AllClose(u, v) == \A k \in 1..Len(u) : Abs(u[k] - v[k]) <= Atol

\* x_axes_compatible comparing the sizes only
x_axes_compatible_sizes(p, q) == Len(p.r) = Len(q.r)

\* PDF.x_axes_compatible
x_axes_compatible(p, q) == Len(p.r) = Len(q.r) /\ AllClose(p.r, q.r)

\* self.g * self.scaling_factor
Effective(p) == ScaleSeq(p.g, p.scaling_factor)

(***************************************************************************)
(* numpy's elementwise arithmetic on two arrays: equal lengths, or one of  *)
(* them of length 1 (broadcast); any other pair of lengths is a ValueError.*)
(***************************************************************************)
CanBroadcast(s, t) == Len(s) = Len(t) \/ Len(s) = 1 \/ Len(t) = 1

BLen(s, t) == IF Len(s) = Len(t) THEN Len(s) ELSE IF Len(s) = 1 THEN Len(t) ELSE Len(s)

BAt(s, k) == IF Len(s) = 1 THEN s[1] ELSE s[k]

NpAdd(s, t) == [k \in 1..BLen(s, t) |-> RAdd(BAt(s, k), BAt(t, k))]

NpSub(s, t) == [k \in 1..BLen(s, t) |-> RSub(BAt(s, k), BAt(t, k))]

NpMul(s, t) == [k \in 1..BLen(s, t) |-> RMul(BAt(s, k), BAt(t, k))]

NpAbs(s) == [k \in 1..Len(s) |-> RAbs(s[k])]

NpSquare(s) == [k \in 1..Len(s) |-> RMul(s[k], s[k])]

(***************************************************************************)
(* Curve operations.  Each operator gives the outcome of the call.  Arrays *)
(* are never written in place (every assignment binds a fresh array), so   *)
(* objects that share an array behave as if each owned a copy.             *)
(***************************************************************************)
\* scale multiplying the factor the curve already has
scale_relative(p, factor) ==
    ReturnNone([p EXCEPT !.scaling_factor = RMul(p.scaling_factor, factor), !.sf_numpy = FALSE])

\* PDF.scale
scale(p, factor) == ReturnNone([p EXCEPT !.scaling_factor = factor, !.sf_numpy = FALSE])

\* PDF.__add__
add(p, q) ==
    IF x_axes_compatible(p, q)
    THEN IF CanBroadcast(p.g, q.g)
         THEN LET new == PDFInit(p.r, NpAdd(Effective(p), Effective(q)),
                                 p.name \o " + " \o q.name)
              IN  [new EXCEPT !.self = p]
         ELSE Raise("ValueError", p)
    ELSE Raise("XAxisException", p)

\* PDF.__sub__
sub(p, q) ==
    IF x_axes_compatible(p, q)
    THEN IF CanBroadcast(p.g, q.g)
         THEN LET new == PDFInit(p.r, NpSub(Effective(p), Effective(q)),
                                 p.name \o " - " \o q.name)
              IN  [new EXCEPT !.self = p]
         ELSE Raise("ValueError", p)
    ELSE Raise("XAxisException", p)

\* PDF.differential_pdf
differential_pdf(pdf1, pdf2) == sub(pdf1, pdf2)

\* other.scaling_factor / self.scaling_factor raises ZeroDivisionError: the divisor
\* is zero and both are Python numbers (with a numpy float64 on either side the
\* division is numpy's, which warns and gives inf or nan)
DivisionRaises(p, q) == p.scaling_factor = Zero /\ ~p.sf_numpy /\ ~q.sf_numpy

\* PDF.__iadd__
iadd(p, q) ==
    IF x_axes_compatible(p, q)
    THEN IF DivisionRaises(p, q)
         THEN Raise("ZeroDivisionError", p)
         ELSE IF CanBroadcast(p.g, q.g)
              THEN LET new == [p EXCEPT !.g = NpAdd(p.g,
                                ScaleSeq(q.g, RDiv(q.scaling_factor, p.scaling_factor)))]
                   IN  ReturnPDF(new, new)
              ELSE Raise("ValueError", p)
    ELSE Raise("XAxisException", p)

\* PDF.__isub__
isub(p, q) ==
    IF x_axes_compatible(p, q)
    THEN IF DivisionRaises(p, q)
         THEN Raise("ZeroDivisionError", p)
         ELSE IF CanBroadcast(p.g, q.g)
              THEN LET new == [p EXCEPT !.g = NpSub(p.g,
                                ScaleSeq(q.g, RDiv(q.scaling_factor, p.scaling_factor)))]
                   IN  ReturnPDF(new, new)
              ELSE Raise("ValueError", p)
    ELSE Raise("XAxisException", p)

\* PDF.get_distance
get_distance(p, q) ==
    IF x_axes_compatible(p, q)
    THEN IF CanBroadcast(p.g, q.g)
         THEN ReturnNum(RSum(NpAbs(NpSub(Effective(p), Effective(q)))), p)
         ELSE Raise("ValueError", p)
    ELSE Raise("XAxisException", p)

\* PDF._get_rmin_index (0-based)
get_rmin_index(p, r_min) ==
    LET arr == {i \in 0..(Len(p.r) - 1) : p.r[i + 1] >= r_min}
    IN  IF arr # {} THEN CHOOSE i \in arr : \A j \in arr : i <= j ELSE 0

\* PDF._get_rmax_index (0-based)
get_rmax_index(p, r_max) ==
    LET arr == {i \in 0..(Len(p.r) - 1) : p.r[i + 1] <= r_max}
    IN  IF arr # {} THEN CHOOSE i \in arr : \A j \in arr : i >= j ELSE Len(p.r)

\* PDF._insert_point
insert_point(p, x, y) ==
    LET index == get_rmin_index(p, x)
        p1 == [p EXCEPT !.r = NpInsert(p.r, index, x)]
    IN  IF index > Len(p.g)
        THEN Raise("IndexError", p1)   \* np.insert(self.g, ...) after self.r was rebound
        ELSE ReturnNone([p1 EXCEPT !.g = NpInsert(p.g, index, y)])

InSeq(x, s) == \E k \in 1..Len(s) : s[k] = x

\* PDF.add_point_linear; r[i] and g[i] are numpy scalars, whose division never raises
add_point_linear(p, x) ==
    IF ~InSeq(x, p.r)
    THEN LET rmax_index == get_rmax_index(p, x)
             rmin_index == get_rmin_index(p, x)
         IN  IF rmax_index >= Len(p.r) \/ rmin_index >= Len(p.r)
                \/ rmax_index >= Len(p.g) \/ rmin_index >= Len(p.g)
             THEN Raise("IndexError", p)
             ELSE LET x1 == Rat(p.r[rmax_index + 1])
                      x2 == Rat(p.r[rmin_index + 1])
                      y1 == p.g[rmax_index + 1]
                      y2 == p.g[rmin_index + 1]
                      m == RDiv(RSub(y2, y1), RSub(x2, x1))
                      y == RAdd(RMul(m, Rat(x)), RSub(y1, RMul(x1, m)))
                  IN  insert_point(p, x, y)
    ELSE Raise("ValueError", p)

\* the product of the rationals f[k], k in S
RECURSIVE RProd(_, _)
RProd(f, S) ==
    IF S = {} THEN One
    ELSE LET k == CHOOSE k \in S : TRUE IN RMul(f[k], RProd(f, S \ {k}))

\* _solve_for_polynomial: np.linalg.solve of the Vandermonde system of the points
\* (a_values[j], b_values[j]) and the value of the polynomial found at x_val, which
\* is the value at x_val of the one polynomial of degree deg through the points
\* (Lagrange's form of it).  The matrix has to be square (deg + 1 points) and
\* regular (pairwise distinct a_values), else solve raises LinAlgError; values
\* that are not finite come out as nan.
solve_for_polynomial(a_values, b_values, x_val, deg) ==
    LET m == Len(a_values)
        weight(j) == RProd([k \in 1..m |-> RDiv(Rat(x_val - a_values[k]),
                                                Rat(a_values[j] - a_values[k]))],
                           (1..m) \ {j})
    IN  IF m # deg + 1 \/ \E j, k \in 1..m : j # k /\ a_values[j] = a_values[k]
        THEN [err |-> "LinAlgError", ans |-> Zero]
        ELSE IF \E j \in 1..m : ~IsFinite(b_values[j])
        THEN [err |-> "", ans |-> NaN]
        ELSE [err |-> "", ans |-> RSum([j \in 1..m |-> RMul(b_values[j], weight(j))])]

\* the while loop of add_point_polynomial: the 0-based indices in x_values once
\* there are num_points of them, taken first from below range_min, then from
\* above range_max; <<-1>> when reading self.g raises IndexError and <<-2>> when
\* the samples run out (UnderdeterminedException)
RECURSIVE take_points(_, _, _, _, _)
take_points(p, indices, range_min, range_max, num_points) ==
    IF Len(indices) >= num_points THEN indices
    ELSE IF range_min > 0
    THEN IF range_min - 1 >= Len(p.g) THEN <<-1>>
         ELSE take_points(p, <<range_min - 1>> \o indices, range_min - 1, range_max, num_points)
    ELSE IF range_max < Len(p.r) - 1
    THEN IF range_max + 1 >= Len(p.g) THEN <<-1>>
         ELSE take_points(p, Append(indices, range_max + 1), range_min, range_max + 1, num_points)
    ELSE <<-2>>

\* a degree argument: its value, and whether it is a Python int
Degree(v, is_int) == [val |-> v, int |-> is_int]

\* add_point_polynomial without its test of the degree: every degree goes on to
\* add_point_linear
add_point_polynomial_unchecked(p, x, degree) ==
    IF ~InSeq(x, p.r) THEN add_point_linear(p, x) ELSE Raise("ValueError", p)

\* PDF.add_point_polynomial
add_point_polynomial(p, x, degree) ==
    IF ~InSeq(x, p.r)
    THEN IF RLe(Rat(2), degree.val) /\ degree.int
         THEN LET deg == degree.val[1]
                  rmax_index == get_rmax_index(p, x)
                  rmin_index == get_rmin_index(p, x)
                  num_points == deg + 1
                  range_min == Max2(0, rmax_index - (deg \div 2))
                  range_max == Min2(Len(p.r) - 1, rmin_index + (num_points \div 2))
                  first == [k \in 1..Max2(0, range_max - range_min) |-> range_min + k - 1]
                  indices == IF \E k \in 1..Len(first) : first[k] >= Len(p.g)
                             THEN <<-1>>
                             ELSE take_points(p, first, range_min, range_max, num_points)
                  x_values == [k \in 1..Len(indices) |-> p.r[indices[k] + 1]]
                  y_values == [k \in 1..Len(indices) |-> p.g[indices[k] + 1]]
                  y == solve_for_polynomial(x_values, y_values, x, deg)
              IN  IF indices = <<-1>> THEN Raise("IndexError", p)
                  ELSE IF indices = <<-2>> THEN Raise("UnderdeterminedException", p)
                  ELSE IF y.err # "" THEN [Raise(y.err, p) EXCEPT !.used = indices]
                  ELSE [insert_point(p, x, y.ans) EXCEPT !.used = indices]
         ELSE IF degree.val = One
         THEN add_point_linear(p, x)
         ELSE Raise("ValueError", p)
    ELSE Raise("ValueError", p)

\* argrelextrema(g, comparator)[0]: the 0-based indices i whose value compares
\* (strictly) with both neighbours; with order 1 and mode "clip" the first and the
\* last value are compared with themselves, so they never qualify
argrelextrema(g, greater) ==
    LET cmp(a, b) == IF greater THEN RLt(b, a) ELSE RLt(a, b)
        hit(i) == /\ 0 < i /\ i < Len(g) - 1
                  /\ cmp(g[i + 1], g[i]) /\ cmp(g[i + 1], g[i + 2])
    IN  SelectSeq([k \in 1..Len(g) |-> k - 1], hit)

\* [(self.r[i], self.g[i]) for i in indices]
r_g_pairs(p, indices) ==
    IF \E k \in 1..Len(indices) : indices[k] >= Len(p.r)
    THEN Raise("IndexError", p)
    ELSE ReturnList([k \in 1..Len(indices) |->
                        <<p.r[indices[k] + 1], p.g[indices[k] + 1]>>], p)

\* PDF.find_maxima
find_maxima(p) == r_g_pairs(p, argrelextrema(p.g, TRUE))

\* PDF.find_minima
find_minima(p) == r_g_pairs(p, argrelextrema(p.g, FALSE))

\* np.allclose(u, v, rtol=0) on two float arrays of equal length
AllCloseFloat(u, v) == \A k \in 1..Len(u) : RClose(u[k], v[k])

\* PDF.__eq__
eq(p, q) ==
    ReturnBool(/\ Len(p.r) = Len(q.r)
               /\ Len(p.g) = Len(q.g)
               /\ AllClose(p.r, q.r)
               /\ AllCloseFloat(Effective(p), Effective(q)), p)

\* PDF.__ne__
ne(p, q) == ReturnBool(~eq(p, q).bool, p)

\* PDF.json (setter), given the record json.loads returns
json_set(p, rec) ==
    ReturnNone([live |-> TRUE, r |-> rec.r, g |-> rec.g, name |-> rec.name,
                scaling_factor |-> rec.scaling_factor, sf_numpy |-> FALSE])

\* PDF.json (setter), given a JSON object that lacks the key missing: the fields
\* are assigned one by one, in the order r, g, name, scaling_factor, and the
\* lookup of the missing key raises KeyError after the assignments before it
json_set_malformed(p, rec, missing) ==
    LET p1 == [p EXCEPT !.r = rec.r]
        p2 == [p1 EXCEPT !.g = rec.g]
        p3 == [p2 EXCEPT !.name = rec.name]
    IN  Raise("KeyError", CASE missing = "r" -> p
                            [] missing = "g" -> p1
                            [] missing = "name" -> p2
                            [] OTHER -> p3)

\* PDF.json (getter), as the record json.loads gives back
json_get(p) == [r |-> p.r, g |-> p.g, name |-> p.name, scaling_factor |-> p.scaling_factor]

\* PDF.from_json, given the record json.loads returns
from_json(rec) ==
    LET out == PDFInit(rec.r, rec.g, rec.name)
    IN  IF out.err = ""
        THEN LET new == [out.pdf EXCEPT !.scaling_factor = rec.scaling_factor, !.sf_numpy = FALSE]
             IN  ReturnPDF(new, new)
        ELSE out

(***************************************************************************)
(* scipy.optimize.minimize_scalar(_distance_with_factor, args=(x, y),      *)
(* method="Brent"): the possible results.  The objective is the sum of     *)
(* (factor * x[i] - y[i])^2.  Where it is a proper parabola Brent's method *)
(* ends at its vertex sum(x*y) / sum(x*x) and reports success.  Where it   *)
(* takes the same value everywhere (sum(x*x) = 0, or nan data) the default *)
(* bracket (0, 1, 2.618) is no valid bracket: releases of scipy that       *)
(* validate it raise BracketError; those that do not walk golden-section   *)
(* steps to the bracket's end (2.618, here 55/21) and report success, or,  *)
(* where the value is nan, failure.                                        *)
(***************************************************************************)
FlatFit == <<55, 21>>

MinimizeResult(k, e, v) == [kind |-> k, err |-> e, x |-> v]

minimize_scalar(x, y) ==
    LET xx == [k \in 1..BLen(x, y) |-> RMul(BAt(x, k), BAt(x, k))]
        xy == NpMul(x, y)
        finite == (\A k \in 1..Len(x) : IsFinite(x[k])) /\ (\A k \in 1..Len(y) : IsFinite(y[k]))
    IN  IF ~CanBroadcast(x, y)
        THEN {MinimizeResult("raise", "ValueError", Zero)}
        ELSE IF BLen(x, y) > 0 /\ ~finite
        THEN {MinimizeResult("raise", "BracketError", Zero),
              MinimizeResult("fail", "", NaN)}
        ELSE IF RSum(xx) = Zero
        THEN {MinimizeResult("raise", "BracketError", Zero),
              MinimizeResult("success", "", FlatFit)}
        ELSE {MinimizeResult("success", "", RDiv(RSum(xy), RSum(xx)))}

RECURSIVE SeqMin(_)
SeqMin(s) == IF Len(s) = 1 THEN s[1] ELSE Min2(s[1], SeqMin(Tail(s)))

RECURSIVE SeqMax(_)
SeqMax(s) == IF Len(s) = 1 THEN s[1] ELSE Max2(s[1], SeqMax(Tail(s)))

\* PDF.scale_to_pdf: the possible outcomes; start and end are None or Some(value)
scale_to_pdf(p, q, start, end) ==
    IF (start = None \/ end = None) /\ (Len(p.r) = 0 \/ Len(q.r) = 0)
    THEN {Raise("ValueError", p)}          \* np.amin / np.amax of an empty array
    ELSE
    LET start1 == IF start = None THEN Max2(SeqMin(p.r), SeqMin(q.r)) ELSE start[1]
        end1 == IF end = None THEN Min2(SeqMax(p.r), SeqMax(q.r)) ELSE end[1]
        start_i_self == get_rmin_index(p, start1)
        start_i_other == get_rmin_index(q, start1)
        end_i_self == get_rmax_index(p, end1)
        end_i_other == get_rmax_index(q, end1)
        r_self == Slice(p.r, start_i_self, end_i_self)
        r_other == Slice(q.r, start_i_other, end_i_other)
        fit(res) == [start_i |-> start_i_self, end_i |-> end_i_self, res |-> res.kind]
    IN  IF Len(r_self) = Len(r_other) /\ AllClose(r_self, r_other)
        THEN {IF res.kind = "raise" THEN Out(res.err, p, NoPDF, Zero, <<fit(res)>>)
              ELSE IF res.kind = "success"
                   THEN Out("", [p EXCEPT !.scaling_factor = res.x, !.sf_numpy = TRUE],
                            NoPDF, Zero, <<fit(res)>>)
                   ELSE Out("", p, NoPDF, Zero, <<fit(res)>>)      \* print(res.message)
              : res \in minimize_scalar(Slice(p.g, start_i_self, end_i_self),
                          ScaleSeq(Slice(q.g, start_i_other, end_i_other), q.scaling_factor))}
        ELSE {Raise("XAxisException", p)}

(***************************************************************************)
(* Files.  A text file is its lines; a line is up to three words: an       *)
(* optional first word pre without digits (such as "#"), then x and y with *)
(* sep spaces between them.  A word is a float literal (text "num", with   *)
(* its value val) or a word without digits ("nan", "inf", "-inf", "word"). *)
(* A project file is a zlib blob, held as the list of records it inflates  *)
(* to.  files maps every path to the file there.                           *)
(***************************************************************************)
NoFile == [exists |-> FALSE, lines |-> <<>>, blob |-> None]

TextFile(lines) == [exists |-> TRUE, lines |-> lines, blob |-> None]

BlobFile(data) == [exists |-> TRUE, lines |-> <<>>, blob |-> Some(data)]

Word(text, val) == [text |-> text, val |-> val]

Line(pre, x, sep, y) == [pre |-> pre, x |-> x, sep |-> sep, y |-> y]

\* f"{x}" of a numpy number: the shortest literal that reads back to the same
\* value, and the words nan, inf and -inf for the specials
format_float(v) ==
    IF IsFinite(v) THEN Word("num", v)
    ELSE IF IsNaN(v) THEN Word("nan", Zero)
    ELSE IF v[1] > 0 THEN Word("inf", Zero) ELSE Word("-inf", Zero)

\* float(text): the outcome, a value or ValueError
parse_float(w) ==
    CASE w.text = "num" -> [err |-> "", val |-> w.val]
      [] w.text = "nan" -> [err |-> "", val |-> NaN]
      [] w.text = "inf" -> [err |-> "", val |-> <<1, 0>>]
      [] w.text = "-inf" -> [err |-> "", val |-> <<-1, 0>>]
      [] OTHER -> [err |-> "ValueError", val |-> Zero]

\* the text save_gr_file builds: zip(self.r, self.g * self.scaling_factor) stops
\* at the shorter of the two
gr_entry(p) ==
    [k \in 1..Min2(Len(p.r), Len(p.g)) |->
        Line("", format_float(Rat(p.r[k])), 1, format_float(RMul(p.g[k], p.scaling_factor)))]

\* save_gr_file opening its target without looking whether it exists
save_gr_file_overwriting(p, path, fs) ==
    [out |-> ReturnNone(p), files |-> [fs EXCEPT ![path] = TextFile(gr_entry(p))]]

\* PDF.save_gr_file: the outcome and the files it leaves
save_gr_file(p, path, fs) ==
    IF ~fs[path].exists
    THEN [out |-> ReturnNone(p), files |-> [fs EXCEPT ![path] = TextFile(gr_entry(p))]]
    ELSE [out |-> Raise("FileExistsError", p), files |-> fs]

\* _is_data_row: regexp.search finds a float literal, spaces and a float literal
\* anywhere in the row; pre holds no digit, so only x and y can be the pair
is_data_row(row) == row.x.text = "num" /\ row.y.text = "num"

\* line.split(" "): one part per word and one empty part per additional space
split_parts(row) == (IF row.pre = "" THEN 0 ELSE 1) + 2 + (row.sep - 1)

\* the file name without directory and extension
BaseName(path) ==
    CASE path = "p.gr" -> "p"
      [] path = "q.gr" -> "q"
      [] OTHER -> "s"

\* PDF.read_gr_file(path, name), name being None or Some(name), of a text file
read_gr_file(path, name, fs) ==
    IF ~fs[path].exists THEN Raise("FileNotFoundError", NoPDF)
    ELSE LET lines == fs[path].lines
             rows == SelectSeq(lines, is_data_row)
             name1 == IF name = None THEN BaseName(path) ELSE name[1]
         IN  IF \E k \in 1..Len(rows) : split_parts(rows[k]) # 2
             THEN Raise("ValueError", NoPDF)      \* x, y = line.split(" ")
             ELSE PDFInit([k \in 1..Len(rows) |-> parse_float(rows[k].x).val[1]],
                          [k \in 1..Len(rows) |-> parse_float(rows[k].y).val], name1)

(***************************************************************************)
(* The state machine: a script holding the PDF objects a and b calls the   *)
(* API, one call per step.  old is the objects before the last call, ret   *)
(* what the call was and how it ended.                                     *)
(***************************************************************************)
NameOf(s) == IF s = "a" THEN "exPDF" ELSE "B"

\* x values of inserted points: below, inside, between, and above the RVals
XVals == {5, 10, 15, 30}

\* degree arguments of add_point_polynomial: ints from -1 to 3, and the floats
\* 1.0, 1.5, 2.0 and 2.5
Degrees ==
    {Degree(Rat(d), TRUE) : d \in -1..3}
        \cup {Degree(One, FALSE), Degree(<<3, 2>>, FALSE), Degree(Rat(2), FALSE),
              Degree(<<5, 2>>, FALSE)}

\* start and end arguments of scale_to_pdf
FitBounds == {None, Some(10), Some(20)}

\* records assigned through the json setter or read by from_json: r and g of up
\* to MaxLen values, and one record with a longer g that has a peak
JsonRecords ==
    [r : SeqsUpTo({10, 20}, MaxLen), g : {ToRats(g) : g \in SeqsUpTo({2}, MaxLen)},
     name : {"J"}, scaling_factor : {Rat(2)}]
        \cup {[r |-> <<10>>, g |-> ToRats(<<0, 2, 0>>), name |-> "J", scaling_factor |-> One]}

\* the keys the json setter reads
JsonKeys == {"r", "g", "name", "scaling_factor"}

\* arguments of the constructor: r and g of up to MaxLen values, and one longer g
CtorArgs ==
    SeqsUpTo(RVals, MaxLen) \X (SeqsUpTo(GVals, MaxLen) \cup {[k \in 1..(MaxLen + 1) |-> 2]})

\* the objects PDF(r, g) constructs from lists of up to MaxLen values
Constructed(name) ==
    {PDFInit(r, ToRats(g), name).pdf : r \in SeqsUpTo(RVals, MaxLen),
                                       g \in SeqsUpTo(GVals, MaxLen)} \ {NoPDF}

NoCall == [op |-> "", self |-> "-", other |-> "-", args |-> <<>>,
           err |-> "", pdf |-> NoPDF, num |-> Zero, fit |-> <<>>,
           list |-> <<>>, bool |-> FALSE, used |-> <<>>]

Live == {s \in Slots : pdfs[s].live}

\* one call of a method of pdfs[slf] (a static method when slf holds no object),
\* which ended as out
CallWith(op, slf, oth, args, out) ==
    /\ steps' = steps + 1
    /\ old' = pdfs
    /\ pdfs' = [pdfs EXCEPT ![slf] = out.self]
    /\ ret' = [op |-> op, self |-> slf, other |-> oth, args |-> args,
               err |-> out.err, pdf |-> out.pdf, num |-> out.num, fit |-> out.fit,
               list |-> out.list, bool |-> out.bool, used |-> out.used]

\* a call that touches no file
Call(op, slf, oth, args, out) ==
    /\ CallWith(op, slf, oth, args, out)
    /\ UNCHANGED <<files, writer, main_window>>

\* the paths the script writes to and reads from
Paths == {"p.gr", "q.gr"}

\* no writer is at work.  pc: where a call of save_gr_file or _save_project
\* stands ("open": before open(path, ...), "write": before f.write, "idle": not
\* running); op, path, slot: the call, its target and the object it was called on;
\* data: what it is about to write; existed: whether the target was there when
\* the call opened it
Idle == [pc |-> "idle", op |-> "", path |-> "", slot |-> "-", data |-> <<>>, existed |-> FALSE]

\* no window was opened.  pdfs: MainWindow.pdfs, NoPDF standing for None;
\* run_window: the event loop is running; event: the last event it read, with
\* selected, the 1-based position of the list entry selected then (0: none), and
\* path, the path in its value; failure: the exception that left run, "" if none
\* did; before: pdfs as it was when the event was read
NoWindow == [pdfs |-> <<>>, run_window |-> FALSE, event |-> "", failure |-> "",
             before |-> <<>>, selected |-> 0, path |-> ""]

\* a script that uses no file and opens no window
NoIO ==
    /\ files = [path \in Paths |-> NoFile]
    /\ writer = Idle
    /\ main_window = NoWindow

\* a = PDF(r, g) was constructed; b is not bound yet
Init ==
    /\ \E p \in Constructed(NameOf("a")) : pdfs = [s \in Slots |-> IF s = "a" THEN p ELSE NoPDF]
    /\ old = [s \in Slots |-> NoPDF]
    /\ ret = NoCall
    /\ steps = 0
    /\ NoIO

\* s = PDF(r, g, name), for a name s not bound yet
Construct ==
    /\ steps < MaxSteps
    /\ \E s \in Slots \ Live, rg \in CtorArgs :
           Call("PDF", s, "-", rg, PDFInit(rg[1], ToRats(rg[2]), NameOf(s)))

\* s = PDF.from_json(record)
FromJson ==
    /\ steps < MaxSteps
    /\ \E s \in Slots \ Live, rec \in JsonRecords :
           Call("from_json", s, "-", <<rec>>, from_json(rec))

\* t = PDF.from_json(s.json), for a name t not bound yet: json.dumps writes the
\* numbers by repr and json.loads reads them back to the same values (nan and
\* the infinities as NaN and Infinity), a numpy scaling_factor comes back as a
\* Python float
JsonRoundTrip ==
    /\ steps < MaxSteps
    /\ \E s \in Live, t \in Slots \ Live :
           Call("json_round_trip", t, s, <<json_get(pdfs[s])>>, from_json(json_get(pdfs[s])))

\* s.json = record
JsonSet ==
    /\ steps < MaxSteps
    /\ \E s \in Live, rec \in JsonRecords :
           Call("json", s, "-", <<rec>>, json_set(pdfs[s], rec))

\* s.json = a record without one of its keys
JsonSetMalformed ==
    /\ steps < MaxSteps
    /\ \E s \in Live, rec \in JsonRecords, missing \in JsonKeys :
           Call("json", s, "-", <<rec, missing>>, json_set_malformed(pdfs[s], rec, missing))

\* s.scale(factor)
Scale ==
    /\ steps < MaxSteps
    /\ \E s \in Live, factor \in Factors :
           Call("scale", s, "-", <<factor>>, scale(pdfs[s], Rat(factor)))

\* s._insert_point(x, y)
InsertPoint ==
    /\ steps < MaxSteps
    /\ \E s \in Live, x \in XVals, y \in GVals :
           Call("_insert_point", s, "-", <<x, y>>, insert_point(pdfs[s], x, Rat(y)))

\* s.add_point_linear(x)
AddPointLinear ==
    /\ steps < MaxSteps
    /\ \E s \in Live, x \in XVals :
           Call("add_point_linear", s, "-", <<x>>, add_point_linear(pdfs[s], x))

\* s.add_point_polynomial(x, degree)
AddPointPolynomial ==
    /\ steps < MaxSteps
    /\ \E s \in Live, x \in XVals, degree \in Degrees :
           Call("add_point_polynomial", s, "-", <<x, degree>>,
                add_point_polynomial(pdfs[s], x, degree))

\* s.find_maxima()
FindMaxima ==
    /\ steps < MaxSteps
    /\ \E s \in Live : Call("find_maxima", s, "-", <<>>, find_maxima(pdfs[s]))

\* s.find_minima()
FindMinima ==
    /\ steps < MaxSteps
    /\ \E s \in Live : Call("find_minima", s, "-", <<>>, find_minima(pdfs[s]))

\* s == o
Eq ==
    /\ steps < MaxSteps
    /\ \E s \in Live, o \in Live : Call("eq", s, o, <<>>, eq(pdfs[s], pdfs[o]))

\* s != o
Ne ==
    /\ steps < MaxSteps
    /\ \E s \in Live, o \in Live : Call("ne", s, o, <<>>, ne(pdfs[s], pdfs[o]))

\* s + o
Add ==
    /\ steps < MaxSteps
    /\ \E s \in Live, o \in Live :
           Call("add", s, o, <<>>, add(pdfs[s], pdfs[o]))

\* s - o
Sub ==
    /\ steps < MaxSteps
    /\ \E s \in Live, o \in Live :
           Call("sub", s, o, <<>>, sub(pdfs[s], pdfs[o]))

\* PDF.differential_pdf(s, o)
DifferentialPdf ==
    /\ steps < MaxSteps
    /\ \E s \in Live, o \in Live :
           Call("differential_pdf", s, o, <<>>, differential_pdf(pdfs[s], pdfs[o]))

\* s += o
IAdd ==
    /\ steps < MaxSteps
    /\ \E s \in Live, o \in Live :
           Call("iadd", s, o, <<>>, iadd(pdfs[s], pdfs[o]))

\* s -= o
ISub ==
    /\ steps < MaxSteps
    /\ \E s \in Live, o \in Live :
           Call("isub", s, o, <<>>, isub(pdfs[s], pdfs[o]))

\* s.get_distance(o)
GetDistance ==
    /\ steps < MaxSteps
    /\ \E s \in Live, o \in Live :
           Call("get_distance", s, o, <<>>, get_distance(pdfs[s], pdfs[o]))

\* s.scale_to_pdf(o, start, end)
ScaleToPdf ==
    /\ steps < MaxSteps
    /\ \E s \in Live, o \in Live, start \in FitBounds, end \in FitBounds :
           \E out \in scale_to_pdf(pdfs[s], pdfs[o], start, end) :
               Call("scale_to_pdf", s, o, <<start, end>>, out)

Next ==
    \/ Construct
    \/ FromJson
    \/ JsonRoundTrip
    \/ JsonSet
    \/ JsonSetMalformed
    \/ Scale
    \/ InsertPoint
    \/ AddPointLinear
    \/ AddPointPolynomial
    \/ FindMaxima
    \/ FindMinima
    \/ Eq
    \/ Ne
    \/ Add
    \/ Sub
    \/ DifferentialPdf
    \/ IAdd
    \/ ISub
    \/ GetDistance
    \/ ScaleToPdf

Spec == Init /\ [][Next]_vars

(***************************************************************************)
(* The binary operations on their own: a and b were constructed, a was     *)
(* scaled, and one call of a binary operation follows.                     *)
(***************************************************************************)
InitPair ==
    /\ \E p \in Constructed(NameOf("a")), q \in Constructed(NameOf("b")),
          f \in Factors \cup {1} :
          pdfs = [s \in Slots |-> IF s = "a" THEN scale(p, Rat(f)).self ELSE q]
    /\ old = [s \in Slots |-> NoPDF]
    /\ ret = NoCall
    /\ steps = MaxSteps - 1
    /\ NoIO

NextBin ==
    \/ Add
    \/ Sub
    \/ DifferentialPdf
    \/ IAdd
    \/ ISub
    \/ GetDistance

SpecBin == InitPair /\ [][NextBin]_vars

(***************************************************************************)
(* Point insertion and extrema on their own: a was constructed from up to  *)
(* MaxSamples samples and scaled, and one call on it follows.              *)
(***************************************************************************)
\* r values of the longer curves: the XVals 5, 15 and 30 fall between them, next
\* to the left end, in the middle and next to the right end
PointR == {0, 10, 20, 40}

\* the objects PDF(r, g) constructs from up to MaxSamples samples
PointCurves ==
    {PDFInit(r, ToRats(g), NameOf("a")).pdf :
         r \in {q \in SeqsUpTo(PointR, MaxSamples) : IsSorted(q)},
         g \in SeqsUpTo(GVals, MaxSamples)} \ {NoPDF}

InitPoint ==
    /\ \E p \in PointCurves, f \in Factors \cup {1} :
          pdfs = [s \in Slots |-> IF s = "a" THEN scale(p, Rat(f)).self ELSE NoPDF]
    /\ old = [s \in Slots |-> NoPDF]
    /\ ret = NoCall
    /\ steps = MaxSteps - 1
    /\ NoIO

NextPoint ==
    \/ InsertPoint
    \/ AddPointLinear
    \/ AddPointPolynomial
    \/ FindMaxima
    \/ FindMinima

SpecPoint == InitPoint /\ [][NextPoint]_vars

(***************************************************************************)
(* Scaling on its own: a and b were constructed, a was scaled, and one     *)
(* call of scale or scale_to_pdf follows.                                  *)
(***************************************************************************)
NextScale ==
    \/ Scale
    \/ ScaleToPdf

SpecScale == InitPair /\ [][NextScale]_vars

(***************************************************************************)
(* The text files: a was constructed and scaled, p.gr is absent or holds   *)
(* up to MaxLines lines, q.gr is absent; calls of save_gr_file,            *)
(* read_gr_file and the json setter follow.                                *)
(***************************************************************************)
\* the lines of the files that are there before the script runs: two samples,
\* a sample with two spaces between the numbers, a header without numbers, a
\* header with numbers, and a sample whose g is nan
FileLines ==
    {Line("", Word("num", Rat(10)), 1, Word("num", Rat(2))),
     Line("", Word("num", Rat(20)), 1, Word("num", Zero)),
     Line("", Word("num", Rat(20)), 2, Word("num", Zero)),
     Line("#", Word("word", Zero), 1, Word("word", Zero)),
     Line("#", Word("num", Rat(10)), 1, Word("num", Rat(2))),
     Line("", Word("num", Rat(10)), 1, Word("nan", Zero))}

\* the curves the script starts with: PDF(r, g) of up to MaxLen values, PDF([10],
\* [nan]) and PDF([10, 20], [2, nan])
FileCurves ==
    Constructed(NameOf("a"))
        \cup {PDFInit(<<10>>, <<NaN>>, NameOf("a")).pdf,
              PDFInit(<<10, 20>>, <<Rat(2), NaN>>, NameOf("a")).pdf}

InitFile ==
    /\ \E p \in FileCurves, f \in Factors \cup {1} :
          pdfs = [s \in Slots |-> IF s = "a" THEN scale(p, Rat(f)).self ELSE NoPDF]
    /\ old = [s \in Slots |-> NoPDF]
    /\ ret = NoCall
    /\ steps = 0
    /\ \E lines \in SeqsUpTo(FileLines, MaxLines), there \in BOOLEAN :
          files = [path \in Paths |-> IF path = "p.gr" /\ there THEN TextFile(lines) ELSE NoFile]
    /\ writer = Idle
    /\ main_window = NoWindow

\* s.save_gr_file(path)
SaveGrFile ==
    /\ steps < MaxSteps
    /\ \E s \in Live, path \in Paths :
          LET res == save_gr_file(pdfs[s], path, files)
          IN  /\ CallWith("save_gr_file", s, "-", <<path>>, res.out)
              /\ files' = res.files
    /\ UNCHANGED <<writer, main_window>>

\* t = PDF.read_gr_file(path) or PDF.read_gr_file(path, name), for a name t not
\* bound yet
ReadGrFile ==
    /\ steps < MaxSteps
    /\ \E t \in Slots \ Live, path \in Paths, name \in {None, Some("N")} :
          Call("read_gr_file", t, "-", <<path, name>>, read_gr_file(path, name, files))

NextFile ==
    \/ SaveGrFile
    \/ ReadGrFile
    \/ JsonSet

SpecFile == InitFile /\ [][NextFile]_vars

(***************************************************************************)
(* The writers step by step, next to another program that creates files:   *)
(* a was constructed and scaled and is the one curve of the main window;   *)
(* p.gr is absent or there.  save_gr_file is its test os.path.exists, then *)
(* open(path, "w"), then f.write; _save_project is open(path, "wb"), then  *)
(* f.write.  The other program may create an absent file between any two   *)
(* of these steps, and a write may fail once the file is open.             *)
(***************************************************************************)
InitWrite ==
    /\ \E p \in Constructed(NameOf("a")), f \in Factors \cup {1} :
          /\ pdfs = [s \in Slots |-> IF s = "a" THEN scale(p, Rat(f)).self ELSE NoPDF]
          /\ main_window = [NoWindow EXCEPT !.pdfs = <<scale(p, Rat(f)).self>>,
                                            !.run_window = TRUE]
    /\ old = [s \in Slots |-> NoPDF]
    /\ ret = NoCall
    /\ steps = 0
    /\ \E lines \in SeqsUpTo(FileLines, 1), there \in BOOLEAN :
          files = [path \in Paths |-> IF path = "p.gr" /\ there THEN TextFile(lines) ELSE NoFile]
    /\ writer = Idle

\* s.save_gr_file(path) up to its test of os.path.exists(path): the text is built
\* and the call goes on to open the file, or raises FileExistsError
SaveGrFileExists ==
    /\ steps < MaxSteps
    /\ writer.pc = "idle"
    /\ \E s \in Live, path \in Paths :
          IF ~files[path].exists
          THEN /\ writer' = [pc |-> "open", op |-> "save_gr_file", path |-> path, slot |-> s,
                             data |-> gr_entry(pdfs[s]), existed |-> FALSE]
               /\ UNCHANGED <<pdfs, old, ret, steps>>
          ELSE /\ writer' = [Idle EXCEPT !.op = "save_gr_file", !.path = path, !.slot = s]
               /\ CallWith("save_gr_file", s, "-", <<path>>, Raise("FileExistsError", pdfs[s]))
    /\ UNCHANGED <<files, main_window>>

\* self._save_project(path) up to the compression of the records
SaveProjectStart ==
    /\ steps < MaxSteps
    /\ writer.pc = "idle"
    /\ \E path \in Paths :
          writer' = [pc |-> "open", op |-> "_save_project", path |-> path, slot |-> "-",
                     data |-> [k \in 1..Len(main_window.pdfs) |-> json_get(main_window.pdfs[k])],
                     existed |-> FALSE]
    /\ UNCHANGED <<pdfs, old, ret, steps, files, main_window>>

\* open(path, "w") or open(path, "wb"): the file is created, or emptied if it is
\* there
WriterOpen ==
    /\ writer.pc = "open"
    /\ writer' = [writer EXCEPT !.pc = "write", !.existed = files[writer.path].exists]
    /\ files' = [files EXCEPT ![writer.path] = TextFile(<<>>)]
    /\ UNCHANGED <<pdfs, old, ret, steps, main_window>>

\* f.write(...) and the end of the with block
WriterWrite ==
    /\ writer.pc = "write"
    /\ writer' = [writer EXCEPT !.pc = "idle"]
    /\ files' = [files EXCEPT ![writer.path] =
                     IF writer.op = "save_gr_file" THEN TextFile(writer.data)
                     ELSE BlobFile(writer.data)]
    /\ steps' = steps + 1
    /\ old' = pdfs
    /\ ret' = [NoCall EXCEPT !.op = writer.op, !.self = writer.slot, !.args = <<writer.path>>]
    /\ UNCHANGED <<pdfs, main_window>>

\* f.write(...) raises OSError (the disk is full, the medium is gone): the with
\* block closes the file and the error leaves the call
WriterWriteFails ==
    /\ writer.pc = "write"
    /\ writer' = [writer EXCEPT !.pc = "idle"]
    /\ steps' = steps + 1
    /\ old' = pdfs
    /\ ret' = [NoCall EXCEPT !.op = writer.op, !.self = writer.slot, !.args = <<writer.path>>,
                             !.err = "OSError"]
    /\ UNCHANGED <<pdfs, files, main_window>>

\* another program creates a file that is not there
OtherProgramCreates ==
    /\ \E path \in Paths, lines \in SeqsUpTo(FileLines, 1) :
          /\ ~files[path].exists
          /\ files' = [files EXCEPT ![path] = TextFile(lines)]
    /\ UNCHANGED <<pdfs, old, ret, steps, writer, main_window>>

NextWrite ==
    \/ SaveGrFileExists
    \/ SaveProjectStart
    \/ WriterOpen
    \/ WriterWrite
    \/ WriterWriteFails
    \/ OtherProgramCreates

SpecWrite == InitWrite /\ [][NextWrite]_vars

(***************************************************************************)
(* The main window (src/gui.py): MainWindow() was constructed and run()    *)
(* reads one event after the other.  p.gr is absent or a text file, q.gr   *)
(* is absent or a project file saved earlier.                              *)
(***************************************************************************)
\* curves of earlier sessions: r = [10] with effective value 2, as g = [2] or as
\* g = [1] scaled by 2, under two names, and a curve of two samples
GuiCurves ==
    {scale(PDFInit(<<10>>, <<Rat(2)>>, n).pdf, One).self : n \in {"x", "y"}}
        \cup {scale(PDFInit(<<10>>, <<One>>, n).pdf, Rat(2)).self : n \in {"x", "y"}}
        \cup {PDFInit(<<10, 20>>, <<Rat(2), Zero>>, "x").pdf}

\* MainWindow.__init__ and the first line of run
InitGui ==
    /\ pdfs = [s \in Slots |-> NoPDF]
    /\ old = [s \in Slots |-> NoPDF]
    /\ ret = NoCall
    /\ steps = 0
    /\ writer = Idle
    /\ main_window = [NoWindow EXCEPT !.run_window = TRUE]
    /\ \E lines \in {<<>>} \cup {SubSeq(<<Line("", Word("num", Rat(10)), 1, Word("num", Rat(2))),
                                           Line("", Word("num", Rat(20)), 1, Word("num", Zero))>>, 1, n) :
                                        n \in 1..2},
          saved \in SeqsUpTo(GuiCurves, MaxLen), text \in BOOLEAN, project \in BOOLEAN :
          files = [path \in Paths |->
                      IF path = "p.gr" /\ text THEN TextFile(lines)
                      ELSE IF path = "q.gr" /\ project
                      THEN BlobFile([k \in 1..Len(saved) |-> json_get(saved[k])])
                      ELSE NoFile]

\* the event loop is reading events
Running == main_window.run_window /\ main_window.failure = "" /\ steps < MaxEvents

\* the handler of event ended: pdfs2 is self.pdfs now, failure the exception that
\* left the handler and run ("" if it returned)
Handled(event, sel, path, pdfs2, failure) ==
    /\ main_window' = [pdfs |-> pdfs2, run_window |-> main_window.run_window,
                       event |-> event, failure |-> failure,
                       before |-> main_window.pdfs, selected |-> sel, path |-> path]
    /\ steps' = steps + 1
    /\ UNCHANGED <<pdfs, old, ret, writer>>

\* values["-PDF_LIST-"]: the selection that comes with an event
Selections == 0..Len(main_window.pdfs)

\* self.pdfs[-1].r in _add_to_plot and p.r in _draw_new_plot: None has no r
plot_failure(l) == IF \E k \in 1..Len(l) : ~l[k].live THEN "AttributeError" ELSE ""

\* PDF.read_from_file(path): the text reader the main window imports with.  It
\* gives the curve of the lines that are float, spaces, float, named after the
\* file; a file that is no text is a decoding failure
read_from_file(path, fs) ==
    IF fs[path].blob # None THEN [err |-> "UnicodeDecodeError", pdfs |-> <<>>]
    ELSE LET sample(row) == row.pre = "" /\ row.x.text = "num" /\ row.y.text = "num"
             rows == SelectSeq(fs[path].lines, sample)
             out == PDFInit([k \in 1..Len(rows) |-> rows[k].x.val[1]],
                            [k \in 1..Len(rows) |-> rows[k].y.val], BaseName(path))
         IN  [err |-> out.err, pdfs |-> IF out.err = "" THEN <<out.pdf>> ELSE <<>>]

\* event "Exit" or the window was closed
Exit ==
    /\ Running
    /\ main_window' = [main_window EXCEPT !.run_window = FALSE, !.event = "Exit",
                           !.before = main_window.pdfs, !.selected = 0, !.path = ""]
    /\ steps' = steps + 1
    /\ UNCHANGED <<pdfs, old, ret, writer, files>>

\* event "-IMPORT_BUTTON-": _import_pdf
ImportPdf ==
    /\ Running
    /\ \E path \in Paths, sel \in Selections :
          /\ files[path].exists
          /\ LET res == read_from_file(path, files)
             IN  IF res.err = "UnicodeDecodeError"
                 THEN Handled("-IMPORT_BUTTON-", sel, path, main_window.pdfs, "")
                 ELSE IF res.err # ""
                 THEN Handled("-IMPORT_BUTTON-", sel, path, main_window.pdfs, res.err)
                 ELSE Handled("-IMPORT_BUTTON-", sel, path, main_window.pdfs \o res.pdfs,
                              plot_failure(main_window.pdfs \o res.pdfs))
    /\ UNCHANGED files

\* DiffWindow.run: what the dialog returns.  None (NoPDF) when it is closed; the
\* outcome of differential_pdf for a minuend and a subtrahend with compatible
\* axes when OK is pressed (other pairs get a popup and the dialog stays open)
DiffWindow_run(l) ==
    LET pairs == (1..Len(l)) \X (1..Len(l))
        none == {pr \in pairs : ~l[pr[1]].live \/ ~l[pr[2]].live}
        compatible == {pr \in pairs \ none : x_axes_compatible(l[pr[1]], l[pr[2]])}
    IN  {ReturnPDF(NoPDF, NoPDF)}
            \cup {Raise("AttributeError", NoPDF) : pr \in none}
            \cup {differential_pdf(l[pr[1]], l[pr[2]]) : pr \in compatible}

\* event "-DIFF_BUTTON-": _calc_diff_pdf
CalcDiffPdf ==
    /\ Running
    /\ \E sel \in Selections, out \in DiffWindow_run(main_window.pdfs) :
          IF out.err # ""
          THEN Handled("-DIFF_BUTTON-", sel, "", main_window.pdfs, out.err)
          ELSE Handled("-DIFF_BUTTON-", sel, "", Append(main_window.pdfs, out.pdf),
                       plot_failure(Append(main_window.pdfs, out.pdf)))
    /\ UNCHANGED files

\* event "-SCALE_BUTTON-": _scale_pdf with the text of the input field, a number
\* (Some) or a text float() refuses (None)
ScalePdf ==
    /\ Running
    /\ \E sel \in Selections, input \in {None} \cup {Some(f) : f \in Factors} :
          IF sel = 0 \/ input = None
          THEN Handled("-SCALE_BUTTON-", sel, "", main_window.pdfs, "")
          ELSE LET l == [main_window.pdfs EXCEPT
                            ![sel] = scale(main_window.pdfs[sel], Rat(input[1])).self]
               IN  Handled("-SCALE_BUTTON-", sel, "", l, plot_failure(l))
    /\ UNCHANGED files

\* FitWindow.run for the curve at position sel: the lists self.pdfs can be after
\* the dialog, each with the exception that left it.  The dialog is closed, or
\* OK is pressed for a curve to fit to and bounds; XAxisException gets a popup and
\* the dialog stays open
FitWindow_run(l, sel) ==
    {[pdfs |-> l, failure |-> ""]}
        \cup {[pdfs |-> [l EXCEPT ![sel] = out.self], failure |-> out.err] :
                  out \in {x \in UNION {scale_to_pdf(l[sel], l[o], start, end) :
                                              o \in 1..Len(l), start \in FitBounds, end \in FitBounds} :
                              x.err # "XAxisException"}}

\* event "-FIT_BUTTON-": _fit_to_pdf
FitToPdf ==
    /\ Running
    /\ \E sel \in Selections :
          IF sel = 0
          THEN Handled("-FIT_BUTTON-", sel, "", main_window.pdfs, "")
          ELSE \E res \in FitWindow_run(main_window.pdfs, sel) :
                  Handled("-FIT_BUTTON-", sel, "", res.pdfs,
                          IF res.failure # "" THEN res.failure ELSE plot_failure(res.pdfs))
    /\ UNCHANGED files

\* events "-MAXIMA_BUTTON-" and "-MINIMA_BUTTON-": _display_extrema
DisplayExtrema ==
    /\ Running
    /\ \E sel \in Selections, maxima \in BOOLEAN :
          LET event == IF maxima THEN "-MAXIMA_BUTTON-" ELSE "-MINIMA_BUTTON-"
          IN  IF sel = 0
              THEN Handled(event, sel, "", main_window.pdfs, "")
              ELSE Handled(event, sel, "", main_window.pdfs,
                           IF maxima THEN find_maxima(main_window.pdfs[sel]).err
                           ELSE find_minima(main_window.pdfs[sel]).err)
    /\ UNCHANGED files

\* event "-SAVE_PATH-": save_gr_file of the selected curve
SavePdf ==
    /\ Running
    /\ \E sel \in Selections, path \in Paths :
          IF sel = 0
          THEN Handled("-SAVE_PATH-", sel, path, main_window.pdfs, "") /\ UNCHANGED files
          ELSE LET res == save_gr_file(main_window.pdfs[sel], path, files)
               IN  /\ Handled("-SAVE_PATH-", sel, path, main_window.pdfs, res.out.err)
                   /\ files' = res.files

\* list.remove(x), x being the entry at position sel: the first entry that is x or
\* compares equal to x with == goes
list_remove(l, sel) ==
    LET hit(k) == k = sel \/ eq(l[k], l[sel]).bool
        first == CHOOSE k \in 1..Len(l) : hit(k) /\ \A j \in 1..(k - 1) : ~hit(j)
    IN  [k \in 1..(Len(l) - 1) |-> IF k < first THEN l[k] ELSE l[k + 1]]

\* event "Delete": _delete_pdf
DeletePdf ==
    /\ Running
    /\ \E sel \in Selections :
          IF sel = 0
          THEN Handled("Delete", sel, "", main_window.pdfs, "")
          ELSE LET l == list_remove(main_window.pdfs, sel)
               IN  Handled("Delete", sel, "", l, plot_failure(l))
    /\ UNCHANGED files

\* MainWindow._save_project: the files it leaves and the exception that left it
save_project(l, path, fs) ==
    IF \E k \in 1..Len(l) : ~l[k].live
    THEN [failure |-> "AttributeError", files |-> fs]      \* None has no json
    ELSE [failure |-> "",
          files |-> [fs EXCEPT ![path] = BlobFile([k \in 1..Len(l) |-> json_get(l[k])])]]

\* event "-PROJECT_SAVE_PATH-": _save_project
SaveProject ==
    /\ Running
    /\ \E sel \in Selections, path \in Paths :
          LET res == save_project(main_window.pdfs, path, files)
          IN  /\ Handled("-PROJECT_SAVE_PATH-", sel, path, main_window.pdfs, res.failure)
              /\ files' = res.files

\* _load_project appending to self.pdfs
load_project_appending(l, path, fs) ==
    IF fs[path].blob = None
    THEN [pdfs |-> l, failure |-> "zlib.error"]
    ELSE LET data == fs[path].blob[1]
             outs == [k \in 1..Len(data) |-> from_json(data[k])]
         IN  [pdfs |-> l \o [k \in 1..Len(outs) |-> outs[k].pdf], failure |-> ""]

\* MainWindow._load_project of a file that is there: self.pdfs after it and the
\* exception that left it.  A text file is no zlib stream; a record from_json
\* refuses ends the list comprehension before self.pdfs is assigned
load_project(l, path, fs) ==
    IF fs[path].blob = None
    THEN [pdfs |-> l, failure |-> "zlib.error"]
    ELSE LET data == fs[path].blob[1]
             outs == [k \in 1..Len(data) |-> from_json(data[k])]
             bad == {k \in 1..Len(outs) : outs[k].err # ""}
         IN  IF bad # {}
             THEN [pdfs |-> l, failure |-> outs[CHOOSE k \in bad : \A j \in bad : k <= j].err]
             ELSE [pdfs |-> [k \in 1..Len(outs) |-> outs[k].pdf], failure |-> ""]

\* event "-PROJECT_LOAD_PATH-": _load_project
LoadProject ==
    /\ Running
    /\ \E sel \in Selections, path \in Paths :
          /\ files[path].exists
          /\ LET res == load_project(main_window.pdfs, path, files)
             IN  Handled("-PROJECT_LOAD_PATH-", sel, path, res.pdfs,
                         IF res.failure # "" THEN res.failure ELSE plot_failure(res.pdfs))
    /\ UNCHANGED files

\* event "-PDF_LIST-": an entry of the list was clicked
ListClicked ==
    /\ Running
    /\ \E sel \in Selections : Handled("-PDF_LIST-", sel, "", main_window.pdfs, "")
    /\ UNCHANGED files

NextGui ==
    \/ Exit
    \/ ImportPdf
    \/ CalcDiffPdf
    \/ ScalePdf
    \/ FitToPdf
    \/ DisplayExtrema
    \/ SavePdf
    \/ DeletePdf
    \/ SaveProject
    \/ LoadProject
    \/ ListClicked

SpecGui == InitGui /\ [][NextGui]_vars

(***************************************************************************)
(* Claims.  Self and Other are the operands of the last call as they were  *)
(* when it was made, SelfAfter is the object it was made on afterwards.    *)
(***************************************************************************)
Self == old[ret.self]

Other == old[ret.other]

SelfAfter == pdfs[ret.self]

\* what the data model promises of an object: r ascending, g as long as r
WellFormed(p) == p.live /\ IsSorted(p.r) /\ Len(p.r) = Len(p.g)

BinaryOps == {"add", "sub", "differential_pdf", "iadd", "isub", "get_distance"}

\* C1: PDF(r, g) with len(r) # len(g), r sorted or not and either one the longer,
\* fails with ValueError and creates no curve.
C1_LengthMismatchIsValueError ==
    (ret.op = "PDF" /\ Len(ret.args[1]) # Len(ret.args[2]))
        => (ret.err = "ValueError" /\ ret.pdf = NoPDF /\ pdfs = old)

\* C2: in every reachable state the r array of every curve, held or returned, is
\* in non-decreasing order.
C2_RSortedAlways ==
    /\ \A s \in Slots : IsSorted(pdfs[s].r)
    /\ IsSorted(ret.pdf.r)

\* C3: in every reachable state len(r) = len(g) for every curve, held or returned.
C3_SameLengthAlways ==
    /\ \A s \in Slots : Len(pdfs[s].r) = Len(pdfs[s].g)
    /\ Len(ret.pdf.r) = Len(ret.pdf.g)

\* C4: for axis-compatible a and b, a + b and a - b (and differential_pdf) return a
\* new curve with r = a.r, g[i] = a.g[i]*a.scaling_factor +/- b.g[i]*b.scaling_factor,
\* scaling_factor 1 and name "<a.name> + <b.name>" (" - "), and leave a and b unchanged.
C4_SumAndDifference ==
    (ret.op \in {"add", "sub", "differential_pdf"} /\ x_axes_compatible(Self, Other))
        => /\ ret.err = ""
           /\ ret.pdf.live
           /\ ret.pdf.r = Self.r
           /\ Len(ret.pdf.g) = Len(Self.r)
           /\ Len(Self.g) = Len(Self.r)
           /\ Len(Other.g) = Len(Self.r)
           /\ \A i \in 1..Len(Self.r) :
                  ret.pdf.g[i] =
                      LET u == RMul(Self.g[i], Self.scaling_factor)
                          v == RMul(Other.g[i], Other.scaling_factor)
                      IN  IF ret.op = "add" THEN RAdd(u, v) ELSE RSub(u, v)
           /\ ret.pdf.scaling_factor = One
           /\ ret.pdf.name = Self.name \o (IF ret.op = "add" THEN " + " ELSE " - ") \o Other.name
           /\ pdfs = old

\* the r arrays have the same length and the same values
AxesEqual(p, q) == Len(p.r) = Len(q.r) /\ \A k \in 1..Len(p.r) : p.r[k] = q.r[k]

\* the r arrays have the same length and no pair of values further apart than Atol
AxesWithinTolerance(p, q) ==
    Len(p.r) = Len(q.r) /\ \A k \in 1..Len(p.r) : Abs(p.r[k] - q.r[k]) <= Atol

EffectiveAt(p, i) == RMul(p.g[i], p.scaling_factor)

\* C6: for axis-compatible a and b and every scaling factor scale() can give them,
\* a += b (a -= b) returns normally, keeps a.scaling_factor and leaves
\* a.g[i]*a.scaling_factor = old a.g[i]*a.scaling_factor +/- b.g[i]*b.scaling_factor
\* for every i; b is unchanged.
C6_InPlaceEffectiveSum ==
    (/\ ret.op \in {"iadd", "isub"}
     /\ WellFormed(Self) /\ WellFormed(Other)
     /\ x_axes_compatible(Self, Other))
        => /\ ret.err = ""
           /\ SelfAfter.scaling_factor = Self.scaling_factor
           /\ SelfAfter.r = Self.r
           /\ Len(SelfAfter.g) = Len(Self.g)
           /\ \A i \in 1..Len(Self.g) :
                  EffectiveAt(SelfAfter, i) =
                      IF ret.op = "iadd"
                      THEN RAdd(EffectiveAt(Self, i), EffectiveAt(Other, i))
                      ELSE RSub(EffectiveAt(Self, i), EffectiveAt(Other, i))
           /\ ret.self # ret.other => pdfs[ret.other] = Other

\* C7: for axis-compatible a and b, a.get_distance(b) returns the sum over i of
\* (a.g[i]*a.scaling_factor - b.g[i]*b.scaling_factor)^2.
C7_DistanceIsSumOfSquares ==
    (/\ ret.op = "get_distance"
     /\ WellFormed(Self) /\ WellFormed(Other)
     /\ x_axes_compatible(Self, Other))
        => /\ ret.err = ""
           /\ ret.num = RSum([i \in 1..Len(Self.g) |->
                            LET d == RSub(EffectiveAt(Self, i), EffectiveAt(Other, i))
                            IN  RMul(d, d)])

\* the start and end a call of scale_to_pdf works with: the arguments, or by
\* default the overlap of the two r ranges
FitStart == IF ret.args[1] = None THEN Max2(SeqMin(Self.r), SeqMin(Other.r)) ELSE ret.args[1][1]

FitEnd == IF ret.args[2] = None THEN Min2(SeqMax(Self.r), SeqMax(Other.r)) ELSE ret.args[2][1]

\* C8: the samples of a entering the least-squares objective of
\* a.scale_to_pdf(b, start, end) are exactly the indices i with
\* start <= r[i] <= end, both bounds inclusive.
C8_FitRangeInclusive ==
    (/\ ret.op = "scale_to_pdf"
     /\ ret.fit # <<>>
     /\ WellFormed(Self) /\ WellFormed(Other))
        => {i \in 0..(Len(Self.g) - 1) : ret.fit[1].start_i <= i /\ i < ret.fit[1].end_i}
               = {i \in 0..(Len(Self.r) - 1) :
                      FitStart <= Self.r[i + 1] /\ Self.r[i + 1] <= FitEnd}

\* C9: if a.g is not identically zero, b has the same r as a and
\* b.g[i]*b.scaling_factor = k*a.g[i] for all i, then a.scale_to_pdf(b) with default
\* start and end ends with a.scaling_factor = k.
C9_FitRecoversFactor ==
    (/\ ret.op = "scale_to_pdf"
     /\ ret.args = <<None, None>>
     /\ WellFormed(Self) /\ WellFormed(Other)
     /\ Self.r = Other.r
     /\ \E j \in 1..Len(Self.g) : Self.g[j] # Zero)
        => LET j == CHOOSE j \in 1..Len(Self.g) : Self.g[j] # Zero
               k == RDiv(EffectiveAt(Other, j), Self.g[j])
           IN  (\A i \in 1..Len(Self.g) : EffectiveAt(Other, i) = RMul(k, Self.g[i]))
                   => (ret.err = "" /\ SelfAfter.scaling_factor = k)

\* C10: if the minimizer reports non-convergence, scale_to_pdf ends in a failure
\* the caller can observe and a.scaling_factor is unchanged.
C10_NonConvergenceIsAFailure ==
    (/\ ret.op = "scale_to_pdf"
     /\ ret.fit # <<>>
     /\ ret.fit[1].res = "fail")
        => (ret.err # "" /\ SelfAfter.scaling_factor = Self.scaling_factor)

\* C11: whenever a call fails, r, g, name and scaling_factor of every existing
\* curve are what they were before the call.
C11_FailureLeavesCurvesUntouched ==
    ret.err # "" =>
        \A s \in Slots :
            /\ pdfs[s].live = old[s].live
            /\ pdfs[s].r = old[s].r
            /\ pdfs[s].g = old[s].g
            /\ pdfs[s].name = old[s].name
            /\ pdfs[s].scaling_factor = old[s].scaling_factor

\* the failures the operations raise by design: ValueError (lengths, duplicate
\* point, degree), XAxisException, UnderdeterminedException, FileExistsError, and
\* the decode error of json.loads
TypedFailures ==
    {"ValueError", "XAxisException", "UnderdeterminedException", "FileExistsError",
     "JSONDecodeError"}

\* C12: add_point_linear, add_point_polynomial, +=, -=, scale_to_pdf and from_json
\* either succeed or fail with one of the typed failures; no call ends in another
\* error such as an index out of range or a division by zero.
C12_FailuresAreTyped ==
    ret.op \in {"add_point_linear", "add_point_polynomial", "iadd", "isub",
                "scale_to_pdf", "from_json"}
        => ret.err \in TypedFailures \cup {""}

\* the call was add_point_linear(x), or add_point_polynomial(x, 1) that delegates to it
IsLinearInsertion ==
    \/ ret.op = "add_point_linear"
    \/ ret.op = "add_point_polynomial" /\ ret.args[2] = Degree(One, TRUE)

\* x lies strictly between the smallest and the largest value of r and is not in r
StrictlyInside(x, r) ==
    /\ \E k \in 1..Len(r) : r[k] < x
    /\ \E k \in 1..Len(r) : r[k] > x
    /\ ~InSeq(x, r)

\* C13: for x strictly between min(r) and max(r) and not in r, add_point_linear(x)
\* (and add_point_polynomial(x, 1)) inserts exactly one sample (x, y) between the
\* nearest lower sample (x1, y1) and the nearest upper sample (x2, y2), with
\* y = y1 + (y2 - y1)*(x - x1)/(x2 - x1); all other samples stay as they are, in
\* their order.
C13_LinearInsertion ==
    (/\ IsLinearInsertion
     /\ Len(Self.g) = Len(Self.r)
     /\ StrictlyInside(ret.args[1], Self.r))
        => /\ ret.err = ""
           /\ \E j \in 1..(Len(Self.r) - 1) :
                  LET x == ret.args[1]
                      x1 == Self.r[j]
                      x2 == Self.r[j + 1]
                      y1 == Self.g[j]
                      y2 == Self.g[j + 1]
                      y == RAdd(y1, RDiv(RMul(RSub(y2, y1), Rat(x - x1)), Rat(x2 - x1)))
                  IN  /\ x1 < x /\ x < x2
                      /\ \A k \in 1..Len(Self.r) : ~(x1 < Self.r[k] /\ Self.r[k] < x2)
                      /\ SelfAfter.r = NpInsert(Self.r, j, x)
                      /\ SelfAfter.g = NpInsert(Self.g, j, y)

\* C14: for x already in r, _insert_point(x, y), add_point_linear(x) and
\* add_point_polynomial(x, degree) fail with the duplicate-point error (ValueError)
\* and leave r and g unchanged.
C14_DuplicatePointRefused ==
    (/\ ret.op \in {"_insert_point", "add_point_linear", "add_point_polynomial"}
     /\ InSeq(ret.args[1], Self.r))
        => /\ ret.err = "ValueError"
           /\ SelfAfter.r = Self.r
           /\ SelfAfter.g = Self.g

\* the call was add_point_polynomial(x, degree) with an int degree >= 2 and an x
\* strictly inside the r range and not in r
IsPolynomialInsertion ==
    /\ ret.op = "add_point_polynomial"
    /\ ret.args[2].int /\ RLe(Rat(2), ret.args[2].val)
    /\ StrictlyInside(ret.args[1], Self.r)

\* C15: for an integer degree >= 2 and x not in r strictly inside the r range,
\* add_point_polynomial(x, degree) raises UnderdeterminedException exactly when
\* the curve has fewer than degree + 1 samples, and succeeds when it has at least
\* degree + 1, wherever x lies between the samples.
C15_UnderdeterminedIffTooFewSamples ==
    (IsPolynomialInsertion /\ WellFormed(Self))
        => LET num_points == ret.args[2].val[1] + 1
           IN  /\ (ret.err = "UnderdeterminedException") <=> (Len(Self.r) < num_points)
               /\ Len(Self.r) >= num_points => ret.err = ""

\* the value at t of the polynomial of degree <= d through the first d + 1 samples
PolynomialAt(p, d, t) ==
    solve_for_polynomial(SubSeq(p.r, 1, d + 1), SubSeq(p.g, 1, d + 1), t, d).ans

\* r pairwise distinct, at least d + 1 samples, all of them on one polynomial of
\* degree <= d
OnPolynomial(p, d) ==
    /\ Len(p.r) >= d + 1
    /\ \A j, k \in 1..Len(p.r) : j # k => p.r[j] # p.r[k]
    /\ \A k \in 1..Len(p.r) : p.g[k] = PolynomialAt(p, d, p.r[k])

\* C16: if the samples of a curve with pairwise distinct r lie on one polynomial
\* of degree <= d (d >= 2) and there are at least d + 1 of them, then for x not in
\* r strictly inside the r range add_point_polynomial(x, d) inserts exactly the
\* sample (x, p(x)) at its sorted position and leaves the other samples unchanged.
C16_PolynomialReproduced ==
    (/\ IsPolynomialInsertion /\ WellFormed(Self)
     /\ OnPolynomial(Self, ret.args[2].val[1]))
        => LET x == ret.args[1]
               j == Cardinality({k \in 1..Len(Self.r) : Self.r[k] < x})
           IN  /\ ret.err = ""
               /\ SelfAfter.r = NpInsert(Self.r, j, x)
               /\ SelfAfter.g = NpInsert(Self.g, j, PolynomialAt(Self, ret.args[2].val[1], x))

\* C17: for x not in r, add_point_polynomial(x, degree) with degree < 1 or with a
\* degree that is no whole number fails with the invalid-degree error (ValueError)
\* and leaves every curve unchanged; no point is inserted.
C17_InvalidDegreeRefused ==
    (/\ ret.op = "add_point_polynomial"
     /\ ~InSeq(ret.args[1], Self.r)
     /\ RLt(ret.args[2].val, One) \/ ret.args[2].val[2] # 1)
        => (ret.err = "ValueError" /\ pdfs = old)

\* a call with degree 2.5 and an x between the samples of a curve of three or more
\* samples was refused
C17_Witness ==
    /\ ret.op = "add_point_polynomial"
    /\ ret.args[2].val = <<5, 2>>
    /\ Len(Self.r) >= 3
    /\ StrictlyInside(ret.args[1], Self.r)
    /\ ret.err = "ValueError"

\* the pairs (r[i], g[i]) of the interior samples of p whose g is strictly above
\* (greater) or strictly below both neighbours, in ascending index order
InteriorExtrema(p, greater) ==
    LET strict(i) == /\ 1 < i /\ i < Len(p.g)
                     /\ IF greater
                        THEN RLt(p.g[i - 1], p.g[i]) /\ RLt(p.g[i + 1], p.g[i])
                        ELSE RLt(p.g[i], p.g[i - 1]) /\ RLt(p.g[i], p.g[i + 1])
        found == SelectSeq([k \in 1..Len(p.g) |-> k], strict)
    IN  [k \in 1..Len(found) |-> <<p.r[found[k]], p.g[found[k]]>>]

\* C18: for a curve with scaling_factor 1, find_maxima returns exactly the pairs
\* (r[i], g[i]) of the interior indices with g[i] > g[i-1] and g[i] > g[i+1], in
\* ascending index and r order, and find_minima the same with <; end samples and
\* plateaus are never returned.
C18_StrictInteriorExtrema ==
    (ret.op \in {"find_maxima", "find_minima"} /\ Self.scaling_factor = One)
        => /\ ret.err = ""
           /\ ret.list = InteriorExtrema(Self, ret.op = "find_maxima")
           /\ \A k \in 1..(Len(ret.list) - 1) : ret.list[k][1] <= ret.list[k + 1][1]

\* the curve with the values every other operation works on
EffectiveCurve(p) == [p EXCEPT !.g = Effective(p)]

\* C19: for every scaling factor (positive, zero or negative) find_maxima and
\* find_minima detect the extrema on g[i]*scaling_factor and return the pairs
\* (r[i], g[i]*scaling_factor); so under factor -1 find_maxima returns the
\* positions of the minima of g.
C19_ExtremaOnEffectiveValues ==
    (ret.op \in {"find_maxima", "find_minima"} /\ ret.err = "")
        => ret.list = InteriorExtrema(EffectiveCurve(Self), ret.op = "find_maxima")

\* the same number of samples, the same r and the same effective values
SameSamples(p, q) ==
    /\ Len(p.r) = Len(q.r)
    /\ Len(p.g) = Len(q.g)
    /\ p.r = q.r
    /\ Effective(p) = Effective(q)

\* C20: a == b holds exactly when a and b have the same number of samples, equal
\* r and equal g[i]*scaling_factor for every i, whatever the names and the split
\* between g and scaling_factor; a == a holds for every curve; a != b is the
\* negation of a == b; neither comparison changes a curve.
C20_EqualityOfEffectiveCurves ==
    ret.op \in {"eq", "ne"}
        => LET equal == IF ret.op = "eq" THEN ret.bool ELSE ~ret.bool
           IN  /\ ret.err = ""
               /\ equal <=> SameSamples(Self, Other)
               /\ ret.self = ret.other => equal
               /\ ret.op = "ne" => ret.bool = ~eq(Self, Other).bool
               /\ pdfs = old

\* the call left r, raw g and name of its object and all of every other object
\* as they were
OnlyFactorTouched ==
    /\ SelfAfter.r = Self.r
    /\ SelfAfter.g = Self.g
    /\ SelfAfter.name = Self.name
    /\ \A t \in Slots \ {ret.self} : pdfs[t] = old[t]

\* C21: scale(factor) sets scaling_factor to exactly factor, whatever it was
\* before, and a scale_to_pdf that returns changes at most the scaling_factor of
\* its target; r, raw g and name of the target and every other curve, the one
\* fitted to included, stay as they were.
C21_ScalingTouchesOnlyTheFactor ==
    /\ ret.op = "scale"
           => /\ ret.err = ""
              /\ SelfAfter.scaling_factor = Rat(ret.args[1])
              /\ OnlyFactorTouched
    /\ (ret.op = "scale_to_pdf" /\ ret.err = "") => OnlyFactorTouched

\* a curve with factor 2 was fitted to another curve and got another factor
C21_Witness ==
    /\ ret.op = "scale_to_pdf"
    /\ ret.err = ""
    /\ ret.self # ret.other
    /\ Self.scaling_factor = Rat(2)
    /\ SelfAfter.scaling_factor \notin {Rat(2), One}
    /\ Len(Self.r) = MaxLen
    /\ Len(Other.r) = MaxLen
    /\ \A k \in 1..Len(Self.g) : Self.g[k] # Zero

\* C22: for every curve c, c.json has exactly the fields r, g, name and
\* scaling_factor, g being the raw values, and PDF.from_json(c.json) is a curve
\* with the r, raw g, name and scaling_factor of c, hence equal to c.
C22_JsonRoundTrip ==
    ret.op = "json_round_trip"
        => /\ DOMAIN ret.args[1] = JsonKeys
           /\ ret.args[1].g = Other.g
           /\ ret.err = ""
           /\ ret.pdf.r = Other.r
           /\ ret.pdf.g = Other.g
           /\ ret.pdf.name = Other.name
           /\ ret.pdf.scaling_factor = Other.scaling_factor
           /\ eq(ret.pdf, Other).bool
           /\ pdfs[ret.other] = Other

\* the lines "<r> <g*scaling_factor>" of the samples of p, in index order
SampleLines(p) ==
    [k \in 1..Min2(Len(p.r), Len(p.g)) |->
        Line("", format_float(Rat(p.r[k])), 1, format_float(EffectiveAt(p, k)))]

\* C24: save_gr_file(path) on a path that exists fails with FileExistsError and
\* leaves the file and the curve as they were; on a path that does not exist
\* it returns and the file holds one line "<r> <g*scaling_factor>" per sample,
\* in index order.
C24_SaveRefusesExistingFile ==
    [][ret'.op = "save_gr_file" /\ steps' = steps + 1
          => LET path == ret'.args[1]
             IN  /\ pdfs' = pdfs
                 /\ \A other \in Paths \ {path} : files'[other] = files[other]
                 /\ IF files[path].exists
                    THEN ret'.err = "FileExistsError" /\ files'[path] = files[path]
                    ELSE /\ ret'.err = ""
                         /\ files'[path] = TextFile(SampleLines(pdfs[ret'.self]))]_vars

\* a scaled curve of MaxLen samples was saved to a path that existed, and was
\* refused
C24_Witness ==
    /\ ret.op = "save_gr_file"
    /\ ret.err = "FileExistsError"
    /\ files[ret.args[1]].lines # <<>>
    /\ Len(Self.r) = MaxLen
    /\ Self.scaling_factor = Rat(2)

\* a line of the form <float><one or more spaces><float>
IsSampleLine(row) == row.pre = "" /\ row.x.text = "num" /\ row.y.text = "num" /\ row.sep >= 1

\* the curve PDF(r, g, name) of the samples in the lines, in file order
CurveOfLines(lines, name) ==
    LET rows == SelectSeq(lines, IsSampleLine)
    IN  PDFInit([k \in 1..Len(rows) |-> rows[k].x.val[1]],
                [k \in 1..Len(rows) |-> rows[k].y.val], name).pdf

\* C25: read_gr_file of a text file returns the curve of the lines of the form
\* <float><one or more spaces><float>, one sample per such line in file order,
\* with scaling_factor 1, and ignores every other line without failing; a file
\* written by save_gr_file from a curve c reads back as a curve equal to c.
C25_ReadTakesTheSampleLines ==
    (ret.op = "read_gr_file" /\ files[ret.args[1]].exists)
        => LET lines == files[ret.args[1]].lines
               name == IF ret.args[2] = None THEN BaseName(ret.args[1]) ELSE ret.args[2][1]
           IN  /\ ret.err = ""
               /\ ret.pdf = CurveOfLines(lines, name)
               /\ ret.pdf.scaling_factor = One
               /\ \A s \in Slots \ {ret.self} :
                      (old[s].live /\ lines = SampleLines(old[s])) => eq(ret.pdf, old[s]).bool

\* C26: when add_point_polynomial(x, degree) succeeds for an integer degree >= 2
\* and x not in r strictly inside the r range, the degree + 1 samples the
\* polynomial is laid through sit at consecutive indices, the two samples next
\* to x are among them, and as many lie below x as above it, up to one, unless
\* the run starts at the first or ends at the last sample.
C26_FitUsesContiguousSamples ==
    (IsPolynomialInsertion /\ WellFormed(Self) /\ ret.err = "")
        => LET x == ret.args[1]
               used == ret.used
               below == Cardinality({k \in 1..Len(used) : Self.r[used[k] + 1] < x})
               above == Cardinality({k \in 1..Len(used) : Self.r[used[k] + 1] > x})
           IN  /\ Len(used) = ret.args[2].val[1] + 1
               /\ \A k \in 1..(Len(used) - 1) : used[k + 1] = used[k] + 1
               /\ InSeq(get_rmax_index(Self, x), used)
               /\ InSeq(get_rmin_index(Self, x), used)
               /\ \/ Abs(below - above) <= 1
                  \/ below < above /\ used[1] = 0
                  \/ above < below /\ used[Len(used)] = Len(Self.r) - 1

\* C27: save_gr_file and the project save create their target exclusively: under
\* every interleaving with another program that creates files, and when the
\* target of a project save exists, no write opens (and so empties or replaces)
\* a file that was there, and a write that fails leaves no file behind.
C27_WritesCreateExclusively ==
    /\ ~writer.existed
    /\ (writer.op # "" /\ writer.pc = "idle" /\ ret.err = "OSError")
           => ~files[writer.path].exists

\* the curves l and m agree entry by entry in r, raw g, name and scaling_factor
SameCurves(l, m) ==
    /\ Len(l) = Len(m)
    /\ \A k \in 1..Len(l) :
          /\ l[k].live /\ m[k].live
          /\ l[k].r = m[k].r
          /\ l[k].g = m[k].g
          /\ l[k].name = m[k].name
          /\ l[k].scaling_factor = m[k].scaling_factor

\* C23: saving the curves the main window holds and loading the file back gives
\* the same curves in the same order, with r, raw g, name and scaling_factor of
\* each; and a project that was loaded replaced what the window held: the list
\* is the curves of the file's records and nothing else
C23_ProjectRoundTrip ==
    /\ \A path \in Paths :
          LET saved == save_project(main_window.pdfs, path, files)
              loaded == load_project(main_window.pdfs, path, saved.files)
          IN  main_window.failure = ""
                  => /\ saved.failure = ""
                     /\ loaded.failure = ""
                     /\ SameCurves(loaded.pdfs, main_window.pdfs)
    /\ (main_window.event = "-PROJECT_LOAD_PATH-" /\ main_window.failure = "")
          => LET data == files[main_window.path].blob[1]
             IN  /\ Len(main_window.pdfs) = Len(data)
                 /\ \A k \in 1..Len(data) :
                       /\ main_window.pdfs[k].live
                       /\ main_window.pdfs[k].r = data[k].r
                       /\ main_window.pdfs[k].g = data[k].g
                       /\ main_window.pdfs[k].name = data[k].name
                       /\ main_window.pdfs[k].scaling_factor = data[k].scaling_factor

\* a project of two curves, one of them scaled by 2, was loaded into a window
\* that held other curves
C23_Witness ==
    /\ main_window.event = "-PROJECT_LOAD_PATH-"
    /\ main_window.failure = ""
    /\ Len(main_window.before) > 0
    /\ Len(main_window.pdfs) = 2
    /\ main_window.pdfs[1].name # main_window.pdfs[2].name
    /\ \E k \in 1..2 : main_window.pdfs[k].scaling_factor = Rat(2)
    /\ \A k \in 1..Len(main_window.before), j \in 1..2 : main_window.before[k] # main_window.pdfs[j]

\* C28: the event loop stops only after Exit or the closing of the window: no
\* handler of another event is left by an exception
C28_RunStopsOnlyOnExit == main_window.failure = ""

\* C29: Delete takes the selected entry out of the list, by its position, and
\* keeps the other entries in their order
C29_DeleteRemovesTheSelectedEntry ==
    (main_window.event = "Delete" /\ main_window.selected > 0)
        => main_window.pdfs = [k \in 1..(Len(main_window.before) - 1) |->
                                  IF k < main_window.selected THEN main_window.before[k]
                                  ELSE main_window.before[k + 1]]

\* C30: no entry of the window's list is None; a dPDF dialog adds nothing or
\* one curve, the difference of two curves of the list
C30_NoNoneInPdfs ==
    /\ \A k \in 1..Len(main_window.pdfs) : main_window.pdfs[k].live
    /\ (main_window.event = "-DIFF_BUTTON-" /\ main_window.pdfs # main_window.before)
          => \E i, j \in 1..Len(main_window.before) :
                /\ x_axes_compatible(main_window.before[i], main_window.before[j])
                /\ main_window.pdfs = Append(main_window.before,
                                             differential_pdf(main_window.before[i],
                                                              main_window.before[j]).pdf)
====
